---- MODULE Spec2Model ----
(***************************************************************************)
(* Model of generate_nameplates.py: the command-line entry point main(),   *)
(* read_names_from_file(), the NameplateGenerator constructor and its      *)
(* generate() loop with the _draw_logo / _draw_name helpers, driving a     *)
(* PDF canvas (saveState / restoreState / translate / rotate / drawString  *)
(* / drawImage / showPage / save).                                         *)
(*                                                                         *)
(* Lengths are integers in quarter millimetres, so that every division by  *)
(* two the program performs on the A4 geometry is exact.                   *)
(***************************************************************************)
EXTENDS Integers, Sequences, FiniteSets

VARIABLES pc, entry, env, fileLines, readIdx, names, self, idx, canvas, out,
          calls, exitCode, geom, layout

vars == <<pc, entry, env, fileLines, readIdx, names, self, idx, canvas, out,
          calls, exitCode, geom, layout>>

----------------------------------------------------------------------------
(* Bounds of the model *)

\* longest names list handed to generate(), and longest names file of main()
MaxNames == 2
\* read_names_from_file() alone: number of lines and characters per line
MaxLines == 3
MaxLineLen == 2
\* layout functions alone: range of page sizes, logo sizes and margins
MaxGeom == 3

----------------------------------------------------------------------------
(* Program constants *)

\* reportlab.lib.units.mm, here the number of length units per millimetre
mm == 4
\* reportlab.lib.pagesizes.A4 = (210*mm, 297*mm)
A4 == <<210 * mm, 297 * mm>>
font_size_large == 48
font_size_medium == 36
\* the name length above which the medium size is chosen
LenThreshold == 30
\* logo_size = 30 * mm and logo_margin = 10 * mm
LogoSizeMm == 30
LogoMarginMm == 10

----------------------------------------------------------------------------
(* Text *)

Rep(ch, n) == [i \in 1..n |-> ch]

\* characters str.strip() removes
Whitespace == {" ", "\t", "\n"}

RECURSIVE lstrip(_)
lstrip(s) ==
    IF s = <<>> THEN <<>>
    ELSE IF Head(s) \in Whitespace THEN lstrip(Tail(s))
    ELSE s

RECURSIVE rstrip(_)
rstrip(s) ==
    IF s = <<>> THEN <<>>
    ELSE IF s[Len(s)] \in Whitespace THEN rstrip(SubSeq(s, 1, Len(s) - 1))
    ELSE s

\* line.strip()
strip(s) == rstrip(lstrip(s))

\* the i-th line as iteration over the file yields it: every line of the
\* file keeps its newline terminator
FileLine(lines, i) == lines[i] \o <<"\n">>

\* `if line:` in read_names_from_file
Truthy(line) == line # <<>>

\* the loop body without the test that skips empty lines
ReadStep_NoSkip(acc, raw) == Append(acc, strip(raw))

\* the body of the `for line in f` loop applied to one line
ReadStep(acc, raw) ==
    LET line == strip(raw)
    IN  IF Truthy(line) THEN Append(acc, line) ELSE acc

----------------------------------------------------------------------------
(* Layout: the coordinates generate() passes to the draw calls *)

\* value / 2 on lengths (exact on the lengths the model uses)
Half(v) == v \div 2

\* self.fold_line = self.page_height / 2
FoldLineOf(page_height) == Half(page_height)

\* the rectangle of the first _draw_logo call of an iteration
TopLogoRect(g, logo_margin) ==
    [x |-> logo_margin,
     y |-> g.fold_line + logo_margin,
     width |-> g.logo_size, height |-> g.logo_size]

\* the anchor of the first _draw_name call (rotation 0)
TopNamePos(g) ==
    [x |-> Half(g.page_width),
     y |-> g.fold_line + Half(g.page_height - g.fold_line)]

\* the bottom logo placed without room for its own height
BottomLogoRect_NoSize(g, logo_margin) ==
    [x |-> g.page_width - logo_margin - g.logo_size,
     y |-> g.fold_line - logo_margin,
     width |-> g.logo_size, height |-> g.logo_size]

\* the rectangle of the second _draw_logo call of an iteration
BottomLogoRect(g, logo_margin) ==
    [x |-> g.page_width - logo_margin - g.logo_size,
     y |-> g.fold_line - logo_margin - g.logo_size,
     width |-> g.logo_size, height |-> g.logo_size]

\* the anchor of the second _draw_name call (rotation 180)
BottomNamePos(g) ==
    [x |-> Half(g.page_width),
     y |-> Half(g.fold_line)]

----------------------------------------------------------------------------
(* The canvas *)

\* the drawing transform: a rotation (0 or 180 degrees) and a translation
Identity == [rot |-> 0, tx |-> 0, ty |-> 0]

NoCanvas ==
    [open |-> FALSE, ctm |-> Identity, font |-> [name |-> "none", size |-> 0],
     stack |-> <<>>, pageOps |-> <<>>, pages |-> <<>>, saves |-> 0]

\* canvas.Canvas(self.output_path, pagesize=A4)
NewCanvas == [NoCanvas EXCEPT !.open = TRUE]

saveState(c) ==
    [c EXCEPT !.stack = Append(@, [ctm |-> c.ctm, font |-> c.font])]

restoreState(c) ==
    LET top == c.stack[Len(c.stack)]
    IN  [c EXCEPT !.ctm = top.ctm, !.font = top.font,
                  !.stack = SubSeq(@, 1, Len(@) - 1)]

setFont(c, font_name, font_size) ==
    [c EXCEPT !.font = [name |-> font_name, size |-> font_size]]

\* the width of a run of text: the glyph metrics belong to the font library;
\* here every glyph is half as wide as the font size (an even width)
stringWidth(text, font_name, font_size) == 2 * (Len(text) * (font_size \div 4))

\* translate and rotate compose with the current transform
translate(c, dx, dy) ==
    [c EXCEPT !.ctm = IF c.ctm.rot = 0
                      THEN [@ EXCEPT !.tx = @ + dx, !.ty = @ + dy]
                      ELSE [@ EXCEPT !.tx = @ - dx, !.ty = @ - dy]]

rotate(c, angle) ==
    [c EXCEPT !.ctm.rot = (@ + angle) % 360]

drawString(c, x, y, text) ==
    [c EXCEPT !.pageOps = Append(@, [kind |-> "text", text |-> text,
                                     font |-> c.font, x |-> x, y |-> y,
                                     width |-> 0, height |-> 0,
                                     ctm |-> c.ctm])]

drawImage(c, x, y, width, height) ==
    [c EXCEPT !.pageOps = Append(@, [kind |-> "image", text |-> <<>>,
                                     font |-> c.font, x |-> x, y |-> y,
                                     width |-> width, height |-> height,
                                     ctm |-> c.ctm])]

\* c.showPage(): the operations drawn so far become a page of the document
showPage(c) ==
    [c EXCEPT !.pages = Append(@, c.pageOps), !.pageOps = <<>>]

\* c.save()
save(c) == [c EXCEPT !.saves = @ + 1]

----------------------------------------------------------------------------
(* NameplateGenerator *)

NoSelf ==
    [constructed |-> FALSE, font_name |-> "none", page_width |-> 0,
     page_height |-> 0, fold_line |-> 0, logo_size |-> 0]

\* the fields __init__ sets
NewSelf(font_name) ==
    [constructed |-> TRUE, font_name |-> font_name,
     page_width |-> A4[1], page_height |-> A4[2],
     fold_line |-> FoldLineOf(A4[2]),
     logo_size |-> LogoSizeMm * mm]

\* what a _draw_logo call can meet: the file is there and drawImage draws it,
\* the file is not there, or drawImage raises
LogoOutcomes == {"ok", "missing", "error"}

\* _draw_logo without the try/except around drawImage
draw_logo_NoExcept(c, rect, outcome) ==
    CASE outcome = "ok" ->
            [canvas |-> drawImage(c, rect.x, rect.y, rect.width, rect.height),
             printed |-> <<>>, raised |-> FALSE]
      [] outcome = "error" ->
            [canvas |-> c, printed |-> <<>>, raised |-> TRUE]
      [] outcome = "missing" ->
            [canvas |-> c, printed |-> <<"Warning: Logo file not found">>,
             raised |-> FALSE]

\* _draw_logo(c, x, y, width, height) under one outcome of the environment
draw_logo(c, rect, outcome) ==
    CASE outcome = "ok" ->
            [canvas |-> drawImage(c, rect.x, rect.y, rect.width, rect.height),
             printed |-> <<>>, raised |-> FALSE]
      [] outcome = "error" ->
            [canvas |-> c, printed |-> <<"Warning: Could not load logo">>,
             raised |-> FALSE]
      [] outcome = "missing" ->
            [canvas |-> c, printed |-> <<"Warning: Logo file not found">>,
             raised |-> FALSE]

\* the threshold taken as exclusive: 30 characters already medium
FontSizeFor_Ge(name) ==
    IF Len(name) >= LenThreshold THEN font_size_medium ELSE font_size_large

\* the font size chosen from the length of the name
FontSizeFor(name) ==
    IF Len(name) > LenThreshold THEN font_size_medium ELSE font_size_large

\* the library calls of _draw_name that can raise, for each rotation; "len"
\* is len(name) on a name that is no string
RaisePoints(rotation) ==
    IF rotation = 180
    THEN {"len", "setFont", "stringWidth", "translate", "rotate", "drawString"}
    ELSE {"len", "setFont", "stringWidth", "drawString"}

\* _draw_name(c, name, x, y, rotation), where raiseAt names the call that
\* raises ("none": every call returns)
draw_name(c, s, name, x, y, rotation, raiseAt) ==
    LET c1 == saveState(c)
        font_size == FontSizeFor(name)
        c2 == setFont(c1, s.font_name, font_size)
        text_width == stringWidth(name, s.font_name, font_size)
        c3 == translate(c2, x, y)
        c4 == rotate(c3, rotation)
        c5 == IF rotation = 180
              THEN drawString(c4, 0 - Half(text_width), 0, name)
              ELSE drawString(c2, x - Half(text_width), y, name)
    IN  CASE raiseAt = "none" -> [canvas |-> restoreState(c5), raised |-> FALSE]
          [] raiseAt \in {"len", "setFont"} -> [canvas |-> c1, raised |-> TRUE]
          [] raiseAt \in {"stringWidth", "translate"} ->
                [canvas |-> c2, raised |-> TRUE]
          [] raiseAt = "rotate" -> [canvas |-> c3, raised |-> TRUE]
          [] raiseAt = "drawString" ->
                [canvas |-> IF rotation = 180 THEN c4 ELSE c2, raised |-> TRUE]

----------------------------------------------------------------------------
(* Inputs *)

SeqsUpTo(S, n) == UNION {[1..k -> S] : k \in 0..n}

\* names handed to generate(): a short one and the two around the threshold
NameSet == {<<"A", "l">>, Rep("x", LenThreshold), Rep("x", LenThreshold + 1)}

\* lines of the names file main() reads: empty, padded and plain
MainLineSet == {<<>>, <<" ", "B", " ">>, <<"A", "l">>}

\* lines of the names file read_names_from_file() is run on alone
ReadLineSet == SeqsUpTo({" ", "a"}, MaxLineLen)

\* what os.path.exists and the font loader answer for the three paths
EnvSet ==
    {e \in [namesExists : BOOLEAN, logoExists : BOOLEAN,
            fontExists : BOOLEAN, fontValid : BOOLEAN] :
        e.fontValid => e.fontExists}

NoRect == [x |-> 0, y |-> 0, width |-> 0, height |-> 0]

NoPos == [x |-> 0, y |-> 0]

NoLayout ==
    [topLogo |-> NoRect, topText |-> NoPos,
     bottomLogo |-> NoRect, bottomText |-> NoPos]

NoGeom ==
    [page_width |-> 0, page_height |-> 0, fold_line |-> 0, logo_size |-> 0,
     logo_margin |-> 0]

\* the call of a canvas or drawing operation as generate() issues it
Call(op, i, region, outcome) ==
    [op |-> op, i |-> i, region |-> region, outcome |-> outcome]

----------------------------------------------------------------------------
(* Initial states *)

InitCommon ==
    /\ readIdx = 0
    /\ self = NoSelf
    /\ idx = 0
    /\ canvas = NoCanvas
    /\ out = <<>>
    /\ calls = <<>>
    /\ exitCode = -1

\* the program is run from the command line (main), or generate() is called
\* on a constructed NameplateGenerator as in example_usage.py
Init ==
    /\ InitCommon
    /\ entry \in {"main", "api"}
    /\ env \in EnvSet
    /\ geom = NoGeom
    /\ layout = NoLayout
    /\ IF entry = "main"
       THEN /\ pc = "main_names_file"
            /\ fileLines \in SeqsUpTo(MainLineSet, MaxNames)
            /\ names = <<>>
       ELSE /\ pc = "construct"
            /\ env.namesExists /\ env.logoExists
            /\ fileLines = <<>>
            /\ names \in SeqsUpTo(NameSet, MaxNames)

----------------------------------------------------------------------------
(* main() *)

Exit1(message) ==
    /\ out' = Append(out, message)
    /\ exitCode' = 1
    /\ pc' = "exit"

MainCheckNamesFile ==
    /\ pc = "main_names_file"
    /\ IF ~env.namesExists
       THEN Exit1("Error: Names file not found")
       ELSE pc' = "main_logo" /\ UNCHANGED <<out, exitCode>>
    /\ UNCHANGED <<entry, env, fileLines, readIdx, names, self, idx, canvas,
                   calls, geom, layout>>

MainCheckLogo ==
    /\ pc = "main_logo"
    /\ IF ~env.logoExists
       THEN Exit1("Error: Logo file not found")
       ELSE pc' = "main_font" /\ UNCHANGED <<out, exitCode>>
    /\ UNCHANGED <<entry, env, fileLines, readIdx, names, self, idx, canvas,
                   calls, geom, layout>>

\* main() without its check of the font file
MainCheckFont_NoCheck ==
    /\ pc = "main_font"
    /\ pc' = "read_open"
    /\ UNCHANGED <<entry, env, fileLines, readIdx, names, self, idx, canvas,
                   out, calls, exitCode, geom, layout>>

MainCheckFont ==
    /\ pc = "main_font"
    /\ IF ~env.fontExists
       THEN Exit1("Error: Font file not found")
       ELSE pc' = "read_open" /\ UNCHANGED <<out, exitCode>>
    /\ UNCHANGED <<entry, env, fileLines, readIdx, names, self, idx, canvas,
                   calls, geom, layout>>

\* read_names_from_file: names = [] and the file is opened
ReadOpen ==
    /\ pc = "read_open"
    /\ names' = <<>>
    /\ readIdx' = 1
    /\ pc' = "read_loop"
    /\ UNCHANGED <<entry, env, fileLines, self, idx, canvas, out, calls,
                   exitCode, geom, layout>>

\* one iteration of `for line in f`
ReadLine ==
    /\ pc = "read_loop"
    /\ readIdx <= Len(fileLines)
    /\ names' = ReadStep(names, FileLine(fileLines, readIdx))
    /\ readIdx' = readIdx + 1
    /\ UNCHANGED <<pc, entry, env, fileLines, self, idx, canvas, out,
                   calls, exitCode, geom, layout>>

\* the file is exhausted: return names
ReadReturn ==
    /\ pc = "read_loop"
    /\ readIdx > Len(fileLines)
    /\ pc' = "main_names"
    /\ UNCHANGED <<entry, env, fileLines, readIdx, names, self, idx, canvas,
                   out, calls, exitCode, geom, layout>>

MainCheckNames ==
    /\ pc = "main_names"
    /\ IF ~Truthy(names)
       THEN Exit1("Error: No names found in the input file.")
       ELSE /\ out' = Append(out, "Loaded names")
            /\ pc' = "construct"
            /\ UNCHANGED exitCode
    /\ UNCHANGED <<entry, env, fileLines, readIdx, names, self, idx, canvas,
                   calls, geom, layout>>

\* generator.generate(names) has returned: return 0
MainReturn ==
    /\ pc = "main_return"
    /\ exitCode' = 0
    /\ pc' = "exit"
    /\ UNCHANGED <<entry, env, fileLines, readIdx, names, self, idx, canvas,
                   out, calls, geom, layout>>

----------------------------------------------------------------------------
(* NameplateGenerator.__init__ and generate *)

\* __init__: the font is registered when its file exists (TTFont raises on a
\* file it cannot read as a font), otherwise Helvetica is used
Construct ==
    /\ pc = "construct"
    /\ IF env.fontExists
       THEN IF env.fontValid
            THEN /\ self' = NewSelf("CustomFont")
                 /\ pc' = "gen_open"
                 /\ UNCHANGED out
            ELSE /\ pc' = "raised_init"
                 /\ UNCHANGED <<self, out>>
       ELSE /\ out' = Append(out, "Warning: Font file not found")
            /\ self' = NewSelf("Helvetica")
            /\ pc' = "gen_open"
    /\ UNCHANGED <<entry, env, fileLines, readIdx, names, idx, canvas,
                   calls, exitCode, geom, layout>>

\* generate: the canvas is created and the loop over names starts
GenerateOpen ==
    /\ pc = "gen_open"
    /\ canvas' = NewCanvas
    /\ idx' = 1
    /\ pc' = IF Len(names) >= 1 THEN "top_logo" ELSE "gen_save"
    /\ UNCHANGED <<entry, env, fileLines, readIdx, names, self, out,
                   calls, exitCode, geom, layout>>

\* every iteration draws the first name
NameAt_First(i) == names[1]

\* the name the loop is at
NameAt(i) == names[i]

LogoStep(region, rect, next) ==
    \E outcome \in LogoOutcomes :
        LET r == draw_logo(canvas, rect, outcome)
        IN  /\ canvas' = r.canvas
            /\ out' = out \o r.printed
            /\ calls' = Append(calls,
                                   Call("draw_logo", idx, region, outcome))
            /\ pc' = IF r.raised THEN "raised_draw" ELSE next

NameStep(region, pos, rotation, next) ==
    \E raiseAt \in {"none"} \cup RaisePoints(rotation) :
        LET r == draw_name(canvas, self, NameAt(idx), pos.x, pos.y, rotation,
                           raiseAt)
        IN  /\ canvas' = r.canvas
            /\ calls' = Append(calls,
                                   Call("draw_name", idx, region, raiseAt))
            /\ pc' = IF r.raised THEN "raised_draw" ELSE next
            /\ UNCHANGED out

DrawTopLogo ==
    /\ pc = "top_logo"
    /\ LogoStep("top", TopLogoRect(self, LogoMarginMm * mm), "top_name")
    /\ UNCHANGED <<entry, env, fileLines, readIdx, names, self, idx,
                   exitCode, geom, layout>>

DrawTopName ==
    /\ pc = "top_name"
    /\ NameStep("top", TopNamePos(self), 0, "bottom_logo")
    /\ UNCHANGED <<entry, env, fileLines, readIdx, names, self, idx,
                   exitCode, geom, layout>>

DrawBottomLogo ==
    /\ pc = "bottom_logo"
    /\ LogoStep("bottom", BottomLogoRect(self, LogoMarginMm * mm),
                "bottom_name")
    /\ UNCHANGED <<entry, env, fileLines, readIdx, names, self, idx,
                   exitCode, geom, layout>>

DrawBottomName ==
    /\ pc = "bottom_name"
    /\ NameStep("bottom", BottomNamePos(self), 180, "show_page")
    /\ UNCHANGED <<entry, env, fileLines, readIdx, names, self, idx,
                   exitCode, geom, layout>>

\* showPage called only when another name follows
ShowPage_BetweenOnly ==
    /\ pc = "show_page"
    /\ IF idx < Len(names)
       THEN /\ canvas' = showPage(canvas)
            /\ calls' = Append(calls, Call("showPage", idx, "page", "none"))
            /\ pc' = "top_logo"
       ELSE /\ pc' = "gen_save"
            /\ UNCHANGED <<canvas, calls>>
    /\ idx' = idx + 1
    /\ UNCHANGED <<entry, env, fileLines, readIdx, names, self, out,
                   exitCode, geom, layout>>

\* c.showPage() at the end of the loop body, then the next name if any
ShowPage ==
    /\ pc = "show_page"
    /\ canvas' = showPage(canvas)
    /\ calls' = Append(calls, Call("showPage", idx, "page", "none"))
    /\ idx' = idx + 1
    /\ pc' = IF idx < Len(names) THEN "top_logo" ELSE "gen_save"
    /\ UNCHANGED <<entry, env, fileLines, readIdx, names, self, out,
                   exitCode, geom, layout>>

\* c.save() and the two closing messages; generate returns
Save ==
    /\ pc = "gen_save"
    /\ canvas' = save(canvas)
    /\ calls' = Append(calls, Call("save", 0, "document", "none"))
    /\ out' = out \o <<"Generated nameplates PDF", "Total pages">>
    /\ pc' = IF entry = "main" THEN "main_return" ELSE "done"
    /\ UNCHANGED <<entry, env, fileLines, readIdx, names, self, idx,
                   exitCode, geom, layout>>

Next ==
    \/ MainCheckNamesFile
    \/ MainCheckLogo
    \/ MainCheckFont
    \/ ReadOpen
    \/ ReadLine
    \/ ReadReturn
    \/ MainCheckNames
    \/ MainReturn
    \/ Construct
    \/ GenerateOpen
    \/ DrawTopLogo
    \/ DrawTopName
    \/ DrawBottomLogo
    \/ DrawBottomName
    \/ ShowPage
    \/ Save

Spec == Init /\ [][Next]_vars

----------------------------------------------------------------------------
(* read_names_from_file() run alone on an arbitrary file *)

InitRead ==
    /\ InitCommon
    /\ entry = "read"
    /\ env = [namesExists |-> TRUE, logoExists |-> TRUE,
              fontExists |-> TRUE, fontValid |-> TRUE]
    /\ geom = NoGeom
    /\ layout = NoLayout
    /\ pc = "read_open"
    /\ fileLines \in SeqsUpTo(ReadLineSet, MaxLines)
    /\ names = <<>>

NextRead ==
    \/ ReadOpen
    \/ ReadLine
    \/ ReadReturn

SpecRead == InitRead /\ [][NextRead]_vars

----------------------------------------------------------------------------
(* The layout computation of one iteration of generate(), run alone on      *)
(* arbitrary page sizes, logo sizes and margins                             *)

GeomSet ==
    {[page_width |-> w, page_height |-> h, fold_line |-> FoldLineOf(h),
      logo_size |-> sz, logo_margin |-> m] :
        w \in {2 * k : k \in 1..MaxGeom} \cup {A4[1]},
        h \in {4 * k : k \in 1..MaxGeom} \cup {A4[2]},
        sz \in (0..MaxGeom) \cup {LogoSizeMm * mm},
        m \in (0..MaxGeom) \cup {LogoMarginMm * mm}}

InitGeom ==
    /\ InitCommon
    /\ entry = "layout"
    /\ env = [namesExists |-> TRUE, logoExists |-> TRUE,
              fontExists |-> TRUE, fontValid |-> TRUE]
    /\ fileLines = <<>>
    /\ names = <<>>
    /\ geom \in GeomSet
    /\ layout = NoLayout
    /\ pc = "layout_top"

\* the top half: logo rectangle and name anchor
LayoutTop ==
    /\ pc = "layout_top"
    /\ layout' = [layout EXCEPT
                    !.topLogo = TopLogoRect(geom, geom.logo_margin),
                    !.topText = TopNamePos(geom)]
    /\ pc' = "layout_bottom"
    /\ UNCHANGED <<entry, env, fileLines, readIdx, names, self, idx, canvas,
                   out, calls, exitCode, geom>>

\* the bottom half: logo rectangle and name anchor
LayoutBottom ==
    /\ pc = "layout_bottom"
    /\ layout' = [layout EXCEPT
                    !.bottomLogo = BottomLogoRect(geom, geom.logo_margin),
                    !.bottomText = BottomNamePos(geom)]
    /\ pc' = "layout_done"
    /\ UNCHANGED <<entry, env, fileLines, readIdx, names, self, idx, canvas,
                   out, calls, exitCode, geom>>

NextGeom ==
    \/ LayoutTop
    \/ LayoutBottom

SpecGeom == InitGeom /\ [][NextGeom]_vars

----------------------------------------------------------------------------
(* Properties of the layout *)

\* the page centre on the fold line
PageCentre(g) == [x |-> Half(g.page_width), y |-> g.fold_line]

\* the image of a point and of a rectangle (given by its lower-left corner)
\* under the rotation by 180 degrees about a centre
Rot180Point(c, p) == [x |-> 2 * c.x - p.x, y |-> 2 * c.y - p.y]

Rot180Rect(c, r) ==
    [x |-> 2 * c.x - (r.x + r.width), y |-> 2 * c.y - (r.y + r.height),
     width |-> r.width, height |-> r.height]

----------------------------------------------------------------------------
(* Properties of read_names_from_file *)

\* a line with at least one character that is no whitespace
NonBlank(line) == \E i \in 1..Len(line) : line[i] \notin Whitespace

\* a non-blank line from its first to its last non-whitespace character
Trimmed(line) ==
    LET solid == {i \in 1..Len(line) : line[i] \notin Whitespace}
        first == CHOOSE i \in solid : \A j \in solid : i <= j
        last == CHOOSE i \in solid : \A j \in solid : j <= i
    IN  SubSeq(line, first, last)

\* the names expected of a sequence of lines
ExpectedNames(lines) ==
    LET kept == SelectSeq(lines, NonBlank)
    IN  [i \in 1..Len(kept) |-> Trimmed(kept[i])]

\* the lines read so far
LinesRead == SubSeq(fileLines, 1, readIdx - 1)

\* C9 (amended): the names read are, in file order, the lines that hold a
\* character other than whitespace, each without its leading and trailing
\* whitespace; none is empty, and there are as many as such lines. This
\* holds after every line read and of the list returned.
C9_ReadNamesStripped ==
    pc \in {"read_loop", "main_names"} =>
        /\ names = ExpectedNames(LinesRead)
        /\ \A i \in 1..Len(names) : names[i] # <<>>
        /\ Len(names) =
              Cardinality({i \in 1..(readIdx - 1) : NonBlank(fileLines[i])})
        /\ pc = "main_names" => LinesRead = fileLines

\* a padded line, a blank line and a plain line give two names
C9_Witness ==
    /\ pc = "main_names"
    /\ fileLines = << <<" ", "a">>, <<>>, <<"a">> >>
    /\ names = << <<"a">>, <<"a">> >>

\* C9 as stated: the list returned is exactly the non-blank lines of the file
C9_ReadNamesVerbatim ==
    pc = "main_names" => names = SelectSeq(fileLines, NonBlank)

----------------------------------------------------------------------------
(* Properties of main() and generate() *)

\* generate() has returned to its caller
GenReturned == pc \in {"main_return", "done"} \/ (pc = "exit" /\ exitCode = 0)

IsText(op) == op.kind = "text"

IsImage(op) == op.kind = "image"

TextOps(page) == SelectSeq(page, IsText)

\* every operation drawn so far, page after page
RECURSIVE Flatten(_)
Flatten(seqs) == IF seqs = <<>> THEN <<>> ELSE Head(seqs) \o Flatten(Tail(seqs))

AllOps == Flatten(canvas.pages) \o canvas.pageOps

Count(seq, Test(_)) == Len(SelectSeq(seq, Test))

\* C1: the pages emitted so far are, in order, those of the first names of
\* the input: page i carries exactly the two text draws of names[i], the
\* upright one first; and when generate returns there are Len(names) pages.
C1_PagesFollowNames ==
    /\ Len(canvas.pages) <= Len(names)
    /\ \A i \in 1..Len(canvas.pages) :
          LET t == TextOps(canvas.pages[i])
          IN  /\ Len(t) = 2
              /\ t[1].text = names[i] /\ t[1].ctm.rot = 0
              /\ t[2].text = names[i] /\ t[2].ctm.rot = 180
    /\ GenReturned => Len(canvas.pages) = Len(names)

\* a list with the same name twice has given two pages
C1_Witness ==
    /\ pc = "done"
    /\ Len(names) = 2 /\ names[1] = names[2]
    /\ Len(canvas.pages) = 2

\* the input of main() is bad: a file is missing or no line holds a name
BadInput ==
    \/ ~env.namesExists
    \/ ~env.logoExists
    \/ ~env.fontExists
    \/ ExpectedNames(fileLines) = <<>>

NothingRendered ==
    /\ ~self.constructed
    /\ ~canvas.open
    /\ canvas.saves = 0
    /\ canvas.pages = <<>>
    /\ calls = <<>>

\* C2: on a bad input main never constructs a generator, opens a canvas or
\* writes a document, it keeps running until it exits, and it exits with 1;
\* main returns 1 only on a bad input and with nothing rendered, and 0 only
\* when the three files exist and a name was read.
C2_MainFailsFast ==
    entry = "main" =>
        /\ BadInput =>
              /\ NothingRendered
              /\ pc = "exit" => exitCode = 1
              /\ pc # "exit" => ENABLED Next
        /\ exitCode = 1 => BadInput /\ NothingRendered /\ pc = "exit"
        /\ exitCode = 0 =>
              /\ env.namesExists /\ env.logoExists /\ env.fontExists
              /\ Len(names) >= 1
              /\ ~BadInput

\* the three files exist but the names file holds blank lines only
C2_Witness ==
    /\ entry = "main"
    /\ env.namesExists /\ env.logoExists /\ env.fontExists
    /\ Len(fileLines) = 2
    /\ names = <<>>
    /\ exitCode = 1

\* the names list is empty: generate([]) is called, or main() reads a file
\* without a name
EmptyInput ==
    \/ entry = "api" /\ names = <<>>
    \/ entry = "main" /\ ExpectedNames(fileLines) = <<>>

\* C3: on an empty names list no canvas is opened and no document is saved,
\* on either entry path.
C3_EmptyListRejected ==
    EmptyInput => ~canvas.open /\ canvas.saves = 0

IsLogoCall(c) == c.op = "draw_logo"

IsFailedLogoCall(c) == c.op = "draw_logo" /\ c.outcome # "ok"

IsMissingLogoCall(c) == c.op = "draw_logo" /\ c.outcome = "missing"

IsErrorLogoCall(c) == c.op = "draw_logo" /\ c.outcome = "error"

IsMissingWarning(m) == m = "Warning: Logo file not found"

IsErrorWarning(m) == m = "Warning: Could not load logo"

\* C4: a logo draw that fails is never fatal. Every logo draw call, whatever
\* its outcome, is followed by the text draw of the same name and half;
\* generate stops early only when a text call raised; one warning is printed
\* per failed logo draw and one image is drawn per successful one, in the
\* untransformed frame; and when generate returns, every name has its page
\* with both text draws and the document was saved once.
C4_LogoFailureNotFatal ==
    /\ \A k \in 1..Len(calls) :
          IsLogoCall(calls[k]) =>
              IF k < Len(calls)
              THEN /\ calls[k + 1].op = "draw_name"
                   /\ calls[k + 1].i = calls[k].i
                   /\ calls[k + 1].region = calls[k].region
              ELSE pc = IF calls[k].region = "top" THEN "top_name"
                        ELSE "bottom_name"
    /\ pc = "raised_draw" =>
          /\ calls[Len(calls)].op = "draw_name"
          /\ calls[Len(calls)].outcome # "none"
    /\ Count(out, IsMissingWarning) = Count(calls, IsMissingLogoCall)
    /\ Count(out, IsErrorWarning) = Count(calls, IsErrorLogoCall)
    /\ Count(AllOps, IsImage) =
          Count(calls, IsLogoCall) - Count(calls, IsFailedLogoCall)
    /\ \A k \in 1..Len(AllOps) :
          IsImage(AllOps[k]) => AllOps[k].ctm = Identity
    /\ GenReturned =>
          /\ Len(canvas.pages) = Len(names)
          /\ \A i \in 1..Len(names) :
                Len(TextOps(canvas.pages[i])) = 2
          /\ Count(calls, IsLogoCall) = 2 * Len(names)
          /\ canvas.saves = 1

\* two names, all four logo draws failed in both ways, and generate returned
C4_Witness ==
    /\ GenReturned
    /\ Len(names) = 2
    /\ Count(calls, IsFailedLogoCall) = 4
    /\ Count(calls, IsMissingLogoCall) = 2
    /\ Len(canvas.pages) = 2
    /\ canvas.saves = 1

\* the constructor was run to its end or left by an exception
ConstructLeft == self.constructed \/ pc = "raised_init"

\* C5: when the font file is absent or cannot be loaded, the constructor
\* warns and falls back to Helvetica; it does not abort.
C5_FontFallback ==
    (ConstructLeft /\ ~env.fontValid) =>
        /\ self.constructed
        /\ self.font_name = "Helvetica"
        /\ \E k \in 1..Len(out) : out[k] = "Warning: Font file not found"

\* C6: every text draw is at the large size when its name has at most 30
\* characters and at the medium size otherwise, and the two text draws of a
\* page are at the same size.
C6_FontTiers ==
    /\ \A k \in 1..Len(AllOps) :
          IsText(AllOps[k]) =>
              AllOps[k].font.size =
                  IF Len(AllOps[k].text) <= 30 THEN 48 ELSE 36
    /\ \A i \in 1..Len(canvas.pages) :
          LET t == TextOps(canvas.pages[i])
          IN  Len(t) = 2 => t[1].font.size = t[2].font.size

\* a name of 30 characters drawn at 48 and one of 31 drawn at 36
C6_Witness ==
    /\ GenReturned
    /\ Len(names) = 2
    /\ Len(names[1]) = 30 /\ Len(names[2]) = 31
    /\ TextOps(canvas.pages[1])[2].font.size = 48
    /\ TextOps(canvas.pages[2])[1].font.size = 36

\* C7: between the calls generate makes, whether _draw_name returned or
\* raised, every saveState has been matched by a restoreState and the
\* drawing transform is the one the canvas started with; no logo and no
\* upright text is drawn in a rotated or translated frame.
C7_TransformScoped ==
    /\ canvas.stack = <<>>
    /\ canvas.ctm = Identity
    /\ \A k \in 1..Len(AllOps) :
          IsImage(AllOps[k]) => AllOps[k].ctm = Identity
    /\ \A i \in 1..Len(canvas.pages) :
          LET t == TextOps(canvas.pages[i])
          IN  Len(t) >= 1 => t[1].ctm = Identity

\* the call generate is expected to make at place k of its run
ExpectedOp(k) ==
    IF k = 5 * Len(names) + 1 THEN "save"
    ELSE CASE (k - 1) % 5 \in {0, 2} -> "draw_logo"
           [] (k - 1) % 5 \in {1, 3} -> "draw_name"
           [] OTHER -> "showPage"

ExpectedRegion(k) ==
    IF k = 5 * Len(names) + 1 THEN "document"
    ELSE CASE (k - 1) % 5 \in {0, 1} -> "top"
           [] (k - 1) % 5 \in {2, 3} -> "bottom"
           [] OTHER -> "page"

IsShowPage(c) == c.op = "showPage"

IsSave(c) == c.op = "save"

\* C10 (amended): the calls generate makes are, name after name in input
\* order, top logo, top text, bottom logo, bottom text and showPage, the
\* showPage following the draws of every name, the last one included; save
\* is called once, after the showPage of the last name, and nothing follows.
C10_CallOrder ==
    /\ Len(calls) <= 5 * Len(names) + 1
    /\ \A k \in 1..Len(calls) :
          /\ calls[k].op = ExpectedOp(k)
          /\ calls[k].region = ExpectedRegion(k)
          /\ calls[k].op # "save" => calls[k].i = (k - 1) \div 5 + 1
    /\ Len(canvas.pages) = Count(calls, IsShowPage)
    /\ canvas.saves = Count(calls, IsSave)
    /\ GenReturned =>
          /\ Len(calls) = 5 * Len(names) + 1
          /\ Count(calls, IsShowPage) = Len(names)
          /\ canvas.saves = 1

\* two names: eleven calls, two of them showPage, the last one save
C10_Witness ==
    /\ GenReturned
    /\ Len(names) = 2
    /\ Len(calls) = 11
    /\ calls[10].op = "showPage" /\ calls[10].i = 2
    /\ calls[11].op = "save"

\* C10 as stated: showPage is called between consecutive names only, never
\* after the draws of the last name
C10_PageBoundaryBetweenNamesOnly ==
    \A k \in 1..Len(calls) :
        calls[k].op = "showPage" => calls[k].i < Len(names)

====
